---------------------------- MODULE Spec2Model ----------------------------
(***************************************************************************)
(* cvox.NavigationShifter (navigation_shifter.js): the controller that     *)
(* delegates to one of seven granularity walkers and keeps the             *)
(* subnavigation, table-mode and math-mode state.                          *)
(*                                                                         *)
(* The controller object is the record `nav'.  Every method is an operator *)
(* from a controller record (and the method's arguments) to the controller *)
(* record the method leaves behind; a method that returns a value yields   *)
(* [s |-> controller, ret |-> value].  Every public method is one action,  *)
(* which also records the call: `op' (method name), `arg' (arguments),     *)
(* `ret' (returned value) and `pre' (the controller before the call).      *)
(***************************************************************************)
EXTENDS Integers, Sequences, FiniteSets, TLC

VARIABLES
    nav,     \* the cvox.NavigationShifter instance
    store,   \* the object handed to storeOn/readFrom: <<>> or <<granularity>>
    pre,     \* nav as it was when the last public method was called
    op,      \* name of the last public method called
    arg,     \* its arguments
    ret,     \* what it returned
    saved    \* the rank it passed to mathWalker_.setSavedGranularity, if any

vars == <<nav, store, pre, op, arg, ret, saved>>

-----------------------------------------------------------------------------
(* Bounds of the inputs drawn from the environment.                        *)

\* countFocusableDescendants(node) ranges over 0..MaxFocusable
MaxFocusable == 2
\* number of leaf nodes that follow (or precede) a math node in the document
MaxLeaves == 2

-----------------------------------------------------------------------------
(* cvox.NavigationShifter.GRANULARITIES                                    *)

CHARACTER == 0
WORD == 1
LINE == 2
SENTENCE == 3
OBJECT == 4
GROUP == 5
VISUAL == 6

\* The ranks a caller may pass to setGranularity.
GRANULARITIES == {CHARACTER, WORD, LINE, SENTENCE, OBJECT, GROUP, VISUAL}

\* A JavaScript value that may be undefined: <<>> is undefined, <<v>> is v.
Undefined == <<>>
Some(v) == <<v>>

-----------------------------------------------------------------------------
(* Array helpers: walkers_ is a JavaScript array, indexed from 0.          *)

\* walkers_[i]; an index outside the array reads undefined.
WalkerAt(walkers, i) ==
    IF i \in 0..(Len(walkers) - 1) THEN walkers[i + 1] ELSE "undefined"

\* walkers_.indexOf(w)
IndexOf(walkers, w) ==
    IF \E i \in 1..Len(walkers) : walkers[i] = w
    THEN (CHOOSE i \in 1..Len(walkers) :
              walkers[i] = w /\ \A j \in 1..(i - 1) : walkers[j] # w) - 1
    ELSE 0 - 1

\* walkers_[i] = w
SetWalkerAt(walkers, i, w) == [walkers EXCEPT ![i + 1] = w]

Max(a, b) == IF a >= b THEN a ELSE b
Min(a, b) == IF a <= b THEN a ELSE b

-----------------------------------------------------------------------------
(* reset_: the state the constructor leaves.                               *)

walkersInit ==
    << "characterWalker_", "wordWalker_", "lineWalker_", "sentenceWalker_",
       "objectWalker_", "groupWalker_", "visualWalker_" >>

reset_ ==
    [ isSubnavigating_    |-> FALSE,
      isTableMode_        |-> FALSE,
      isMathMode_         |-> FALSE,
      walkers_            |-> walkersInit,
      currentWalkerIndex_ |-> IndexOf(walkersInit, "groupWalker_"),
      currentWalker_      |->
          WalkerAt(walkersInit, IndexOf(walkersInit, "groupWalker_")) ]

-----------------------------------------------------------------------------
(* Granularity shifts and subnavigation.  ensureNotSubnavigating and       *)
(* makeLessGranular call each other.                                       *)

RECURSIVE ensureNotSubnavigating(_)
RECURSIVE makeLessGranular(_)

isSubnavigating(s) == s.isSubnavigating_

makeMoreGranular_noClamp(s) ==
    LET t == ensureNotSubnavigating(s)
        i == t.currentWalkerIndex_ - 1
    IN  [t EXCEPT !.currentWalkerIndex_ = i,
                  !.currentWalker_ = WalkerAt(t.walkers_, i)]

makeMoreGranular(s) ==
    LET t == ensureNotSubnavigating(s)
        i == Max(t.currentWalkerIndex_ - 1, 0)
    IN  [t EXCEPT !.currentWalkerIndex_ = i,
                  !.currentWalker_ = WalkerAt(t.walkers_, i)]

makeLessGranular_noClamp(s) ==
    LET t == ensureNotSubnavigating(s)
        i == t.currentWalkerIndex_ + 1
    IN  [t EXCEPT !.currentWalkerIndex_ = i,
                  !.currentWalker_ = WalkerAt(t.walkers_, i)]

makeLessGranular_keepSubnavigating(s) ==
    LET i == Min(s.currentWalkerIndex_ + 1, Len(s.walkers_) - 1)
    IN  [s EXCEPT !.currentWalkerIndex_ = i,
                  !.currentWalker_ = WalkerAt(s.walkers_, i)]

makeLessGranular(s) ==
    LET t == ensureNotSubnavigating(s)
        i == Min(t.currentWalkerIndex_ + 1, Len(t.walkers_) - 1)
    IN  [t EXCEPT !.currentWalkerIndex_ = i,
                  !.currentWalker_ = WalkerAt(t.walkers_, i)]

setGranularity_keepSubnavigating(s, granularity) ==
    [s EXCEPT !.currentWalkerIndex_ = granularity,
              !.currentWalker_ = WalkerAt(s.walkers_, granularity)]

setGranularity(s, granularity) ==
    LET t == ensureNotSubnavigating(s)
    IN  [t EXCEPT !.currentWalkerIndex_ = granularity,
                  !.currentWalker_ = WalkerAt(t.walkers_, granularity)]

ensureSubnavigating_keepFlag(s) ==
    IF s.isSubnavigating_ = FALSE THEN makeMoreGranular(s) ELSE s

ensureSubnavigating(s) ==
    IF s.isSubnavigating_ = FALSE
    THEN [makeMoreGranular(s) EXCEPT !.isSubnavigating_ = TRUE]
    ELSE s

ensureNotSubnavigating(s) ==
    IF s.isSubnavigating_ = TRUE
    THEN makeLessGranular([s EXCEPT !.isSubnavigating_ = FALSE])
    ELSE s

getGranularity_noReenter(s) ==
    LET t == ensureNotSubnavigating(s)
    IN  [s |-> t, ret |-> t.currentWalkerIndex_]

getGranularity(s) ==
    LET wasSubnavigating == isSubnavigating(s)
        t == ensureNotSubnavigating(s)
        r == t.currentWalkerIndex_
    IN  [ s   |-> IF wasSubnavigating THEN ensureSubnavigating(t) ELSE t,
          ret |-> r ]


-----------------------------------------------------------------------------
(* Values a method returns.  The controller never looks inside a selection *)
(* a walker hands back, so a returned selection is identified by the       *)
(* walker and method that produced it (and, for tryExitMath, by the leaf   *)
(* and direction the selection was built from).                            *)

Void == [kind |-> "void", by |-> "none", method |-> "none",
         value |-> Undefined, target |-> Undefined]
Null == [Void EXCEPT !.kind = "null"]
Value(v) == [Void EXCEPT !.kind = "value", !.value = Some(v)]
Delegated(w, m) == [Void EXCEPT !.kind = "delegated", !.by = w, !.method = m]
DelegatedAt(w, m, leaf, rev) ==
    [Delegated(w, m) EXCEPT !.target = Some([leaf |-> leaf, reversed |-> rev])]

-----------------------------------------------------------------------------
(* What the collaborators outside navigation_shifter.js (cvox.DomUtil,     *)
(* the walkers) report about a selection.  A selection is the record of    *)
(* the answers the method under call asks for.                             *)

\* cvox.DomUtil.getContainingTable(sel.start.node): "none" is null.
TableKinds == {"none", "layout", "data"}
getContainingTable(sel) == sel.table
\* cvox.DomUtil.isLayoutTable(tableNode)
isLayoutTable(tableNode) == tableNode = "layout"
\* cvox.DomUtil.getContainingMath(sel.start.node): FALSE is null.
getContainingMath(sel) == sel.math

\* The leaves met from a math node in one direction, as their hasContent
\* flags, nearest first.
LeafRuns == UNION { [1..n -> BOOLEAN] : n \in 0..MaxLeaves }

\* do { node = directedNextLeafNode(node, rev) }
\* while (node && !hasContent(node)): the position of the leaf the loop
\* stops at, from position `at'; 0 when it runs off the document (null).
RECURSIVE directedNextContentLeaf(_, _)
directedNextContentLeaf(leaves, at) ==
    LET node == at + 1
    IN  IF node > Len(leaves) THEN 0
        ELSE IF ~leaves[node] THEN directedNextContentLeaf(leaves, node)
        ELSE node

-----------------------------------------------------------------------------
(* Table mode.                                                             *)

isTableMode_anyWalker(s) == s.isTableMode_

isTableMode(s) == s.isTableMode_ /\ (s.currentWalker_ = "tableWalker_")

ensureTableMode_(s) ==
    LET w == SetWalkerAt(s.walkers_, GROUP, "tableWalker_")
    IN  [s EXCEPT !.isTableMode_ = TRUE,
                  !.walkers_ = w,
                  !.currentWalkerIndex_ = GROUP,
                  !.currentWalker_ = WalkerAt(w, GROUP)]

ensureNotTableMode_toGroup(s) ==
    LET w == SetWalkerAt(s.walkers_, GROUP, "groupWalker_")
    IN  [s EXCEPT !.isTableMode_ = FALSE,
                  !.walkers_ = w,
                  !.currentWalkerIndex_ = GROUP,
                  !.currentWalker_ = WalkerAt(w, GROUP)]

ensureNotTableMode(s) ==
    LET w == SetWalkerAt(s.walkers_, GROUP, "groupWalker_")
    IN  [s EXCEPT !.isTableMode_ = FALSE,
                  !.walkers_ = w,
                  !.currentWalker_ = WalkerAt(w, s.currentWalkerIndex_)]

\* kwargs = kwargs || {force: false, fromTop: false}
DefaultKwargs == [given |-> FALSE, force |-> FALSE, fromTop |-> FALSE]
Kwargs == {DefaultKwargs} \cup [given : {TRUE}, force : BOOLEAN, fromTop : BOOLEAN]

tryEnterTable_ignoreLayout(s, sel, kwargs) ==
    LET kw == IF kwargs.given THEN kwargs ELSE DefaultKwargs
        tableNode == getContainingTable(sel)
    IN  IF s.isTableMode_ THEN [s |-> s, ret |-> Null]
        ELSE IF tableNode # "none"
        THEN LET t == ensureTableMode_(s)
             IN  [ s   |-> t,
                   ret |-> IF kw.fromTop
                           THEN Delegated("tableWalker_", "goToFirstCell")
                           ELSE Delegated(t.currentWalker_, "sync") ]
        ELSE [s |-> s, ret |-> Null]

tryEnterTable(s, sel, kwargs) ==
    LET kw == IF kwargs.given THEN kwargs ELSE DefaultKwargs
        tableNode == getContainingTable(sel)
    IN  IF s.isTableMode_ THEN [s |-> s, ret |-> Null]
        ELSE IF tableNode # "none" /\ (kw.force \/ ~isLayoutTable(tableNode))
        THEN LET t == ensureTableMode_(s)
             IN  [ s   |-> t,
                   ret |-> IF kw.fromTop
                           THEN Delegated("tableWalker_", "goToFirstCell")
                           ELSE Delegated(t.currentWalker_, "sync") ]
        ELSE [s |-> s, ret |-> Null]

-----------------------------------------------------------------------------
(* Math mode.  The math walker is outside navigation_shifter.js; of the    *)
(* calls the controller makes on it, setSavedGranularity is recorded with  *)
(* its argument.                                                           *)

isMathMode_anyWalker(s) == s.isMathMode_

isMathMode(s) == s.isMathMode_ /\ (s.currentWalker_ = "mathWalker_")

isInMath(sel) == sel.inMath

ensureNotMathMode(s) ==
    LET w == SetWalkerAt(s.walkers_, GROUP, "groupWalker_")
    IN  [s EXCEPT !.isMathMode_ = FALSE,
                  !.walkers_ = w,
                  !.currentWalker_ = WalkerAt(w, s.currentWalkerIndex_)]

ensureMathMode_staleWalker(s) ==
    LET w == SetWalkerAt(s.walkers_, GROUP, "mathWalker_")
    IN  [ s     |-> [s EXCEPT !.isMathMode_ = TRUE,
                              !.walkers_ = w,
                              !.currentWalkerIndex_ = GROUP],
          saved |-> Some(s.currentWalkerIndex_) ]

\* s: the controller afterwards; saved: the argument of
\* this.mathWalker_.setSavedGranularity(this.currentWalkerIndex_)
ensureMathMode_(s) ==
    LET w == SetWalkerAt(s.walkers_, GROUP, "mathWalker_")
    IN  [ s     |-> [s EXCEPT !.isMathMode_ = TRUE,
                              !.walkers_ = w,
                              !.currentWalkerIndex_ = GROUP,
                              !.currentWalker_ = WalkerAt(w, GROUP)],
          saved |-> Some(s.currentWalkerIndex_) ]

tryEnterMath_reenter(s, sel) ==
    IF getContainingMath(sel)
    THEN LET t == ensureMathMode_(s)
         IN  [ s     |-> t.s,
               ret   |-> Delegated(t.s.currentWalker_, "sync"),
               saved |-> t.saved ]
    ELSE [s |-> s, ret |-> Null, saved |-> Undefined]

tryEnterMath(s, sel) ==
    IF s.isMathMode_ THEN [s |-> s, ret |-> Null, saved |-> Undefined]
    ELSE IF getContainingMath(sel)
    THEN LET t == ensureMathMode_(s)
         IN  [ s     |-> t.s,
               ret   |-> Delegated(t.s.currentWalker_, "sync"),
               saved |-> t.saved ]
    ELSE [s |-> s, ret |-> Null, saved |-> Undefined]

tryExitMath_exitOnlyInsideMath(s, sel, rev) ==
    LET t == IF isInMath(sel) THEN ensureNotMathMode(s) ELSE s
        leaf == directedNextContentLeaf(sel.leaves, 0)
    IN  [ s   |-> t,
          ret |-> IF isInMath(sel) /\ getContainingMath(sel) /\ leaf # 0
                  THEN DelegatedAt(t.currentWalker_, "sync", leaf, rev)
                  ELSE Null ]

tryExitMath(s, sel, rev) ==
    LET t == ensureNotMathMode(s)
        leaf == directedNextContentLeaf(sel.leaves, 0)
    IN  [ s   |-> t,
          ret |-> IF isInMath(sel) /\ getContainingMath(sel) /\ leaf # 0
                  THEN DelegatedAt(t.currentWalker_, "sync", leaf, rev)
                  ELSE Null ]

-----------------------------------------------------------------------------
(* Delegation and persistence.                                             *)

\* next, sync, act, getDescription, ...: this.currentWalker_.<method>(...)
forward(s, method) == [s |-> s, ret |-> Delegated(s.currentWalker_, method)]

syncToPageBeginning_noForce(s) ==
    [s |-> s, ret |-> Delegated(s.currentWalker_, "syncToPageBeginning")]

syncToPageBeginning(s) ==
    LET t == ensureNotTableMode(s)
    IN  [s |-> t, ret |-> Delegated(t.currentWalker_, "syncToPageBeginning")]

syncNode_anyFocusable(s, sel) ==
    IF sel.group /\ sel.focusable > 0
    THEN [ s   |-> setGranularity(s, OBJECT),
           ret |-> Delegated("objectWalker_", "sync") ]
    ELSE [ s   |-> setGranularity(s, GROUP),
           ret |-> IF sel.group THEN Delegated("groupWalker_", "sync")
                   ELSE Null ]

\* sel.group: groupWalker_.sync(sel.clone()) is not null;
\* sel.focusable: countFocusableDescendants(group.start.node)
syncNode(s, sel) ==
    IF sel.group /\ sel.focusable > 1
    THEN [ s   |-> setGranularity(s, OBJECT),
           ret |-> Delegated("objectWalker_", "sync") ]
    ELSE [ s   |-> setGranularity(s, GROUP),
           ret |-> IF sel.group THEN Delegated("groupWalker_", "sync")
                   ELSE Null ]

storeOn_rawIndex(s) == [s |-> s, store |-> Some(s.currentWalkerIndex_)]

\* store['granularity'] = this.getGranularity()
storeOn(s) == LET g == getGranularity(s) IN [s |-> g.s, store |-> Some(g.ret)]

\* this.setGranularity(store['granularity'])
readFrom(s, st) == setGranularity(s, st[1])

-----------------------------------------------------------------------------
(* The state machine: one action per public method.                        *)

Init ==
    /\ nav = reset_
    /\ store = Undefined
    /\ pre = reset_
    /\ op = "new"
    /\ arg = << >>
    /\ ret = Void
    /\ saved = Undefined

\* A call of method `name' with arguments `a' that leaves controller `s'
\* and returns `r'.
Call(name, a, s, r) ==
    /\ pre' = nav
    /\ op' = name
    /\ arg' = a
    /\ nav' = s
    /\ ret' = r
    /\ saved' = Undefined

SetGranularity ==
    \E granularity \in GRANULARITIES :
        /\ Call("setGranularity", <<granularity>>,
                setGranularity(nav, granularity), Void)
        /\ UNCHANGED store

MakeMoreGranular ==
    /\ Call("makeMoreGranular", << >>, makeMoreGranular(nav), Void)
    /\ UNCHANGED store

MakeLessGranular ==
    /\ Call("makeLessGranular", << >>, makeLessGranular(nav), Void)
    /\ UNCHANGED store

GetGranularity ==
    /\ Call("getGranularity", << >>,
            getGranularity(nav).s, Value(getGranularity(nav).ret))
    /\ UNCHANGED store

EnsureSubnavigating ==
    /\ Call("ensureSubnavigating", << >>, ensureSubnavigating(nav), Void)
    /\ UNCHANGED store

EnsureNotSubnavigating ==
    /\ Call("ensureNotSubnavigating", << >>, ensureNotSubnavigating(nav), Void)
    /\ UNCHANGED store

TryEnterTable ==
    \E table \in TableKinds, kwargs \in Kwargs :
        LET sel == [table |-> table]
            r == tryEnterTable(nav, sel, kwargs)
        IN  /\ Call("tryEnterTable", <<sel, kwargs>>, r.s, r.ret)
            /\ UNCHANGED store

EnsureNotTableMode ==
    /\ Call("ensureNotTableMode", << >>, ensureNotTableMode(nav), Void)
    /\ UNCHANGED store

TryEnterMath ==
    \E math \in BOOLEAN :
        LET sel == [math |-> math]
            r == tryEnterMath(nav, sel)
        IN  /\ pre' = nav
            /\ op' = "tryEnterMath"
            /\ arg' = <<sel>>
            /\ nav' = r.s
            /\ ret' = r.ret
            /\ saved' = r.saved
            /\ UNCHANGED store

TryExitMath ==
    \E inMath \in BOOLEAN, math \in BOOLEAN, leaves \in LeafRuns,
       rev \in BOOLEAN :
        LET sel == [inMath |-> inMath, math |-> math, leaves |-> leaves]
            r == tryExitMath(nav, sel, rev)
        IN  /\ Call("tryExitMath", <<sel, rev>>, r.s, r.ret)
            /\ UNCHANGED store

EnsureNotMathMode ==
    /\ Call("ensureNotMathMode", << >>, ensureNotMathMode(nav), Void)
    /\ UNCHANGED store

Forward ==
    \E method \in {"next", "sync", "act"} :
        LET r == forward(nav, method)
        IN  /\ Call(method, << >>, r.s, r.ret)
            /\ UNCHANGED store

SyncToPageBeginning ==
    LET r == syncToPageBeginning(nav)
    IN  /\ Call("syncToPageBeginning", << >>, r.s, r.ret)
        /\ UNCHANGED store

SyncNode ==
    \E group \in BOOLEAN, focusable \in 0..MaxFocusable :
        LET sel == [group |-> group, focusable |-> focusable]
            r == syncNode(nav, sel)
        IN  /\ Call("syncNode", <<sel>>, r.s, r.ret)
            /\ UNCHANGED store

StoreOn ==
    LET r == storeOn(nav)
    IN  /\ Call("storeOn", << >>, r.s, Void)
        /\ store' = r.store

\* readFrom is given a store an earlier storeOn wrote.
ReadFrom ==
    /\ store # Undefined
    /\ Call("readFrom", <<store>>, readFrom(nav, store), Void)
    /\ UNCHANGED store

Next ==
    \/ SetGranularity
    \/ MakeMoreGranular
    \/ MakeLessGranular
    \/ GetGranularity
    \/ EnsureSubnavigating
    \/ EnsureNotSubnavigating
    \/ TryEnterTable
    \/ EnsureNotTableMode
    \/ TryEnterMath
    \/ TryExitMath
    \/ EnsureNotMathMode
    \/ Forward
    \/ SyncToPageBeginning
    \/ SyncNode
    \/ StoreOn
    \/ ReadFrom

Spec == Init /\ [][Next]_vars

-----------------------------------------------------------------------------
(* Properties.  getGranularity(s).ret is what getGranularity() reports in  *)
(* controller state s.                                                     *)

\* C1: from any reachable state (subnavigating, table or math mode
\* included), for every rank r in 0..6, setGranularity(r) followed by
\* getGranularity() returns r.
C1_SetThenGet ==
    op = "setGranularity" => getGranularity(nav).ret = arg[1]

\* setGranularity(VISUAL) was called on a subnavigating controller in table
\* mode, and getGranularity() now reports VISUAL.
C1_Witness ==
    /\ op = "setGranularity"
    /\ pre.isSubnavigating_
    /\ isTableMode(pre)
    /\ arg[1] = VISUAL
    /\ getGranularity(nav).ret = VISUAL

\* C2: from any non-subnavigating state with getGranularity() = r,
\* ensureSubnavigating() immediately followed by ensureNotSubnavigating()
\* leaves getGranularity() = r, for every r in 0..6, CHARACTER included.
C2_SubnavigationRoundTrip ==
    (op = "ensureSubnavigating" /\ ~pre.isSubnavigating_)
        => getGranularity(ensureNotSubnavigating(nav)).ret
               = getGranularity(pre).ret

\* C3: ensureSubnavigating() in a non-subnavigating state with
\* getGranularity() = r leaves the controller subnavigating and
\* getGranularity() still reporting r, for every r in 0..6.
C3_SubnavigationKeepsReported ==
    (op = "ensureSubnavigating" /\ ~pre.isSubnavigating_)
        => /\ isSubnavigating(nav)
           /\ getGranularity(nav).ret = getGranularity(pre).ret

\* C4: in a non-subnavigating state makeMoreGranular() at CHARACTER stays at
\* CHARACTER and makeLessGranular() at VISUAL stays at VISUAL; at every
\* other rank they move the granularity by exactly one step.
C4_ShiftClamps ==
    /\ (op = "makeMoreGranular" /\ ~pre.isSubnavigating_)
           => getGranularity(nav).ret =
                  IF getGranularity(pre).ret = CHARACTER THEN CHARACTER
                  ELSE getGranularity(pre).ret - 1
    /\ (op = "makeLessGranular" /\ ~pre.isSubnavigating_)
           => getGranularity(nav).ret =
                  IF getGranularity(pre).ret = VISUAL THEN VISUAL
                  ELSE getGranularity(pre).ret + 1

\* makeMoreGranular() was called at CHARACTER, not subnavigating, and the
\* granularity is CHARACTER.
C4_Witness ==
    /\ op = "makeMoreGranular"
    /\ ~pre.isSubnavigating_
    /\ getGranularity(pre).ret = CHARACTER
    /\ getGranularity(nav).ret = CHARACTER

\* C5: immediately after setGranularity(r), makeMoreGranular() or
\* makeLessGranular() called in a subnavigating state, isSubnavigating()
\* is false.
C5_ShiftCancelsSubnavigation ==
    (/\ op \in {"setGranularity", "makeMoreGranular", "makeLessGranular"}
     /\ isSubnavigating(pre))
        => ~isSubnavigating(nav)

\* makeLessGranular() was called while subnavigating and subnavigation is
\* over.
C5_Witness ==
    /\ op = "makeLessGranular"
    /\ isSubnavigating(pre)
    /\ ~isSubnavigating(nav)

\* C6: in every reachable state the queries isTableMode() and isMathMode()
\* do not both return true.
C6_QueriesExclusive ==
    ~(isTableMode(nav) /\ isMathMode(nav))

\* Both stored flags are set (math entered inside a table) and isMathMode()
\* is the one query that answers true.
C6_Witness ==
    /\ nav.isTableMode_
    /\ nav.isMathMode_
    /\ isMathMode(nav)
    /\ ~isTableMode(nav)

\* C7: the stored flags isTableMode_ and isMathMode_ are never both true
\* after a public method returns.
C7_FlagsExclusive ==
    ~(nav.isTableMode_ /\ nav.isMathMode_)

\* C8: after every public method the GROUP slot holds the table walker
\* exactly when the table flag is set, the math walker exactly when the math
\* flag is set, and the group walker exactly when neither is.
C8_GroupSlotByFlags ==
    LET slot == WalkerAt(nav.walkers_, GROUP)
    IN  /\ (slot = "tableWalker_") <=> nav.isTableMode_
        /\ (slot = "mathWalker_") <=> nav.isMathMode_
        /\ (slot = "groupWalker_") <=> (~nav.isTableMode_ /\ ~nav.isMathMode_)

\* C9: after every public method (setGranularity given ranks in 0..6,
\* readFrom given a store storeOn wrote) the granularity index is a rank in
\* 0..6, also between getGranularity's exit from and re-entry into
\* subnavigation.
C9_IndexIsRank ==
    /\ nav.currentWalkerIndex_ \in GRANULARITIES
    /\ op = "getGranularity"
           => /\ ensureNotSubnavigating(pre).currentWalkerIndex_
                     \in GRANULARITIES
              /\ ret.value[1] \in GRANULARITIES

\* getGranularity() was called while subnavigating at index CHARACTER.
C9_Witness ==
    /\ op = "getGranularity"
    /\ isSubnavigating(pre)
    /\ pre.currentWalkerIndex_ = CHARACTER
    /\ nav.currentWalkerIndex_ \in GRANULARITIES

\* C10: tryEnterTable called while isTableMode() is false, on a selection
\* inside a non-layout table, leaves isTableMode() true.
C10_EnterGenuineTable ==
    (/\ op = "tryEnterTable"
     /\ ~isTableMode(pre)
     /\ getContainingTable(arg[1]) = "data")
        => isTableMode(nav)

\* C11: whenever tryEnterTable commits table mode (selection inside a
\* non-layout table, or force set), getGranularity() reports GROUP right
\* afterwards, whatever the granularity was before and whether or not the
\* controller was subnavigating.
C11_EnterTableReportsGroup ==
    (/\ op = "tryEnterTable"
     /\ ~pre.isTableMode_
     /\ getContainingTable(arg[1]) # "none"
     /\ (getContainingTable(arg[1]) = "data" \/ (arg[2].given /\ arg[2].force)))
        => getGranularity(nav).ret = GROUP

\* C12: tryEnterTable on a selection outside any table, or inside a layout
\* table without force, returns null and leaves the whole controller
\* unchanged, so isTableMode() stays false.
C12_NoTableNoChange ==
    (/\ op = "tryEnterTable"
     /\ \/ getContainingTable(arg[1]) = "none"
        \/ (getContainingTable(arg[1]) = "layout"
                /\ ~(arg[2].given /\ arg[2].force)))
        => /\ ret = Null
           /\ nav = pre
           /\ ~isTableMode(pre) => ~isTableMode(nav)

\* tryEnterTable was called with an explicit force: false on a selection in
\* a layout table, while subnavigating outside table mode; it returned null.
C12_Witness ==
    /\ op = "tryEnterTable"
    /\ getContainingTable(arg[1]) = "layout"
    /\ arg[2].given /\ ~arg[2].force
    /\ ~pre.isTableMode_
    /\ isSubnavigating(pre)
    /\ ret = Null
    /\ ~isTableMode(nav)

\* C13: tryEnterTable called while already in table mode, and tryEnterMath
\* called while already in math mode, return null and alter no controller
\* state, for any selection and any options.
C13_ReentryIsNoOp ==
    /\ (op = "tryEnterTable" /\ (isTableMode(pre) \/ pre.isTableMode_))
           => (ret = Null /\ nav = pre)
    /\ (op = "tryEnterMath" /\ (isMathMode(pre) \/ pre.isMathMode_))
           => (ret = Null /\ nav = pre /\ saved = Undefined)

\* tryEnterMath was called in math mode on a selection inside a math node.
C13_Witness ==
    /\ op = "tryEnterMath"
    /\ isMathMode(pre)
    /\ getContainingMath(arg[1])
    /\ ret = Null
    /\ nav = pre

\* C14: ensureNotTableMode() called while isTableMode() is false (math mode
\* included) changes nothing observable: getGranularity(), isSubnavigating(),
\* isTableMode(), isMathMode() and the walker that next/sync/act delegate to.
C14_NotTableModeIdempotent ==
    (op = "ensureNotTableMode" /\ ~isTableMode(pre))
        => /\ getGranularity(nav).ret = getGranularity(pre).ret
           /\ isSubnavigating(nav) = isSubnavigating(pre)
           /\ isTableMode(nav) = isTableMode(pre)
           /\ isMathMode(nav) = isMathMode(pre)
           /\ forward(nav, "next").ret = forward(pre, "next").ret

\* C15: tryExitMath(sel, rev) leaves isMathMode() false from any state and
\* for any selection; it returns null when the selection is not inside a
\* math region or no leaf with content remains in the given direction.
C15_ExitMathUnconditional ==
    op = "tryExitMath"
        => /\ ~isMathMode(nav)
           /\ ~nav.isMathMode_
           /\ (\/ ~isInMath(arg[1])
               \/ ~getContainingMath(arg[1])
               \/ ~\E i \in 1..Len(arg[1].leaves) : arg[1].leaves[i])
                  => ret = Null

\* tryExitMath was called in math mode with a selection outside any math
\* region: it returned null and math mode is over.
C15_Witness ==
    /\ op = "tryExitMath"
    /\ isMathMode(pre)
    /\ ~isInMath(arg[1])
    /\ ret = Null
    /\ ~isMathMode(nav)

\* C16: after A.storeOn(store) into a fresh store, for A in any reachable
\* state, and B.readFrom(store) on a newly constructed controller B,
\* B.getGranularity() equals A.getGranularity() and B is neither in table
\* mode, nor in math mode, nor subnavigating.
C16_StoreCarriesOnlyRank ==
    op = "storeOn"
        => LET B == readFrom(reset_, store)
           IN  /\ getGranularity(B).ret = getGranularity(pre).ret
               /\ getGranularity(B).ret = getGranularity(nav).ret
               /\ ~isTableMode(B) /\ ~B.isTableMode_
               /\ ~isMathMode(B) /\ ~B.isMathMode_
               /\ ~isSubnavigating(B)

\* storeOn was called on a subnavigating controller in table mode whose
\* getGranularity() is not GROUP (the rank a new controller starts with).
C16_Witness ==
    /\ op = "storeOn"
    /\ isSubnavigating(pre)
    /\ isTableMode(pre)
    /\ getGranularity(pre).ret # GROUP
    /\ getGranularity(readFrom(reset_, store)).ret = getGranularity(pre).ret

\* C17 as stated: after ensureNotTableMode() or ensureNotMathMode(), from
\* any reachable state, getGranularity() reports GROUP, isSubnavigating() is
\* false, and neither table nor math mode is active.
C17_ExitReturnsToNormalGroup ==
    op \in {"ensureNotTableMode", "ensureNotMathMode"}
        => /\ getGranularity(nav).ret = GROUP
           /\ ~isSubnavigating(nav)
           /\ ~isTableMode(nav)
           /\ ~isMathMode(nav)

\* C17 as amended: after ensureNotTableMode() or ensureNotMathMode(), from
\* any reachable state, neither table nor math mode is active and the GROUP
\* slot holds the ordinary group walker, while getGranularity() and
\* isSubnavigating() are what they were before the call.
C17_ExitKeepsGranularity ==
    op \in {"ensureNotTableMode", "ensureNotMathMode"}
        => /\ ~isTableMode(nav)
           /\ ~isMathMode(nav)
           /\ WalkerAt(nav.walkers_, GROUP) = "groupWalker_"
           /\ getGranularity(nav).ret = getGranularity(pre).ret
           /\ nav.currentWalkerIndex_ = pre.currentWalkerIndex_
           /\ isSubnavigating(nav) = isSubnavigating(pre)

\* ensureNotTableMode() was called while subnavigating at a granularity
\* other than GROUP, with the table flag set.
C17_Witness ==
    /\ op = "ensureNotTableMode"
    /\ pre.isTableMode_
    /\ isSubnavigating(pre)
    /\ getGranularity(pre).ret # GROUP
    /\ getGranularity(nav).ret = getGranularity(pre).ret
    /\ isSubnavigating(nav)

\* C18: tryEnterMath, when it commits math mode, saves the rank
\* getGranularity() reported immediately before the call, also when the
\* controller was subnavigating.
C18_SavesReportedGranularity ==
    (/\ op = "tryEnterMath"
     /\ ~pre.isMathMode_
     /\ getContainingMath(arg[1]))
        => saved = Some(getGranularity(pre).ret)

\* C19: after ensureSubnavigating() from rank r, with nothing in between,
\* makeLessGranular() leaves getGranularity() = min(r+1, 6) and
\* makeMoreGranular() leaves getGranularity() = max(r-1, 0).
C19_ShiftRelativeToBaseline ==
    (op = "ensureSubnavigating" /\ ~isSubnavigating(pre))
        => /\ getGranularity(makeLessGranular(nav)).ret
                  = Min(getGranularity(pre).ret + 1, VISUAL)
           /\ getGranularity(makeMoreGranular(nav)).ret
                  = Max(getGranularity(pre).ret - 1, CHARACTER)

\* C20 as stated: isTableMode() is true exactly when the table flag is set
\* and the GROUP slot holds the table walker, and isMathMode() exactly when
\* the math flag is set and the GROUP slot holds the math walker, whatever
\* the current granularity index.
C20_QueriesByFlagAndSlot ==
    /\ isTableMode(nav) <=>
           (nav.isTableMode_ /\ WalkerAt(nav.walkers_, GROUP) = "tableWalker_")
    /\ isMathMode(nav) <=>
           (nav.isMathMode_ /\ WalkerAt(nav.walkers_, GROUP) = "mathWalker_")

\* C20 as amended: isTableMode() is true exactly when the table flag is
\* set, the GROUP slot holds the table walker and the current granularity
\* index is GROUP; isMathMode() likewise with the math flag and walker.
C20_QueriesByFlagSlotAndIndex ==
    /\ isTableMode(nav) <=>
           /\ nav.isTableMode_
           /\ WalkerAt(nav.walkers_, GROUP) = "tableWalker_"
           /\ nav.currentWalkerIndex_ = GROUP
    /\ isMathMode(nav) <=>
           /\ nav.isMathMode_
           /\ WalkerAt(nav.walkers_, GROUP) = "mathWalker_"
           /\ nav.currentWalkerIndex_ = GROUP

\* The math flag is set and the GROUP slot holds the math walker, but the
\* granularity was moved off GROUP, and isMathMode() answers false.
C20_Witness ==
    /\ nav.isMathMode_
    /\ WalkerAt(nav.walkers_, GROUP) = "mathWalker_"
    /\ nav.currentWalkerIndex_ # GROUP
    /\ ~isMathMode(nav)

\* C21: calling ensureSubnavigating() or ensureNotSubnavigating() twice in
\* a row leaves the controller exactly as calling it once does, from any
\* reachable state; ensureSubnavigating() while subnavigating and
\* ensureNotSubnavigating() while not subnavigating change nothing.
C21_SubnavigationIdempotent ==
    /\ ensureSubnavigating(ensureSubnavigating(nav)) = ensureSubnavigating(nav)
    /\ ensureNotSubnavigating(ensureNotSubnavigating(nav))
           = ensureNotSubnavigating(nav)
    /\ op = "ensureSubnavigating" => ensureSubnavigating(nav) = nav
    /\ op = "ensureNotSubnavigating" => ensureNotSubnavigating(nav) = nav
    /\ (op = "ensureSubnavigating" /\ isSubnavigating(pre)) => nav = pre
    /\ (op = "ensureNotSubnavigating" /\ ~isSubnavigating(pre)) => nav = pre

\* ensureSubnavigating() was called on a non-subnavigating controller and
\* moved it one step; a second call would leave it where it is.
C21_Witness ==
    /\ op = "ensureSubnavigating"
    /\ ~isSubnavigating(pre)
    /\ nav.currentWalkerIndex_ = pre.currentWalkerIndex_ - 1
    /\ isSubnavigating(nav)
    /\ ensureSubnavigating(nav) = nav

\* C22: syncNode(sel) leaves the controller non-subnavigating; when the
\* group-sync of sel is non-null and its start node has more than one
\* focusable descendant, getGranularity() is OBJECT and the object-sync
\* result is returned; otherwise getGranularity() is GROUP and the
\* group-sync result (possibly null) is returned.
C22_SyncNodeCommits ==
    op = "syncNode"
        => /\ ~isSubnavigating(nav)
           /\ IF arg[1].group /\ arg[1].focusable > 1
              THEN /\ getGranularity(nav).ret = OBJECT
                   /\ ret = Delegated("objectWalker_", "sync")
              ELSE /\ getGranularity(nav).ret = GROUP
                   /\ ret = IF arg[1].group
                            THEN Delegated("groupWalker_", "sync")
                            ELSE Null

\* syncNode was called while subnavigating in table mode on a selection
\* whose group has exactly one focusable descendant: it committed to GROUP.
C22_Witness ==
    /\ op = "syncNode"
    /\ isSubnavigating(pre)
    /\ pre.isTableMode_
    /\ arg[1].group
    /\ arg[1].focusable = 1
    /\ getGranularity(nav).ret = GROUP
    /\ ~isSubnavigating(nav)

\* C23: syncToPageBeginning delegates to a walker that is never the table
\* walker, isTableMode() is false when it returns, and the granularity
\* index and the subnavigation flag are what they were before the call.
C23_PageBeginningLeavesTable ==
    op = "syncToPageBeginning"
        => /\ ret.kind = "delegated"
           /\ ret.method = "syncToPageBeginning"
           /\ ret.by # "tableWalker_"
           /\ ~isTableMode(nav)
           /\ nav.currentWalkerIndex_ = pre.currentWalkerIndex_
           /\ isSubnavigating(nav) = isSubnavigating(pre)

\* syncToPageBeginning was called in table mode while subnavigating, and
\* the group walker took the call.
C23_Witness ==
    /\ op = "syncToPageBeginning"
    /\ isTableMode(pre)
    /\ isSubnavigating(pre)
    /\ ret.by = "groupWalker_"
    /\ ~isTableMode(nav)

\* C24: getGranularity() has no net effect: the granularity index, the
\* subnavigation flag, the mode flags, the GROUP slot and the current
\* walker after the call equal those before it, in every reachable state.
C24_GetGranularityIsPure ==
    op = "getGranularity"
        => /\ nav.currentWalkerIndex_ = pre.currentWalkerIndex_
           /\ nav.isSubnavigating_ = pre.isSubnavigating_
           /\ nav.isTableMode_ = pre.isTableMode_
           /\ nav.isMathMode_ = pre.isMathMode_
           /\ WalkerAt(nav.walkers_, GROUP) = WalkerAt(pre.walkers_, GROUP)
           /\ nav.currentWalker_ = pre.currentWalker_
           /\ nav = pre

\* getGranularity() was called while subnavigating in math mode and
\* reported the rank above the index in use.
C24_Witness ==
    /\ op = "getGranularity"
    /\ isSubnavigating(pre)
    /\ isMathMode(pre)
    /\ ret = Value(pre.currentWalkerIndex_ + 1)
    /\ nav = pre

\* C25: ensureNotMathMode() or tryExitMath(sel, rev), called while
\* isMathMode() is false, leaves isTableMode() with the value it had.
C25_ExitMathKeepsTableMode ==
    (op \in {"ensureNotMathMode", "tryExitMath"} /\ ~isMathMode(pre))
        => isTableMode(nav) = isTableMode(pre)

\* C26: after every public method the cached current walker is the walker
\* in the slot at the current granularity index, and it is the walker
\* next/sync/act forward to, also right after the GROUP slot is retargeted.
C26_CurrentWalkerIsSlot ==
    /\ nav.currentWalker_ = WalkerAt(nav.walkers_, nav.currentWalkerIndex_)
    /\ \A m \in {"next", "sync", "act"} :
           forward(nav, m).ret.by
               = WalkerAt(nav.walkers_, nav.currentWalkerIndex_)
    /\ op \in {"next", "sync", "act"}
           => ret.by = WalkerAt(pre.walkers_, pre.currentWalkerIndex_)

\* next/sync/act was forwarded to the math walker, which math entry put in
\* the GROUP slot.
C26_Witness ==
    /\ op \in {"next", "sync", "act"}
    /\ pre.isMathMode_
    /\ pre.currentWalkerIndex_ = GROUP
    /\ ret.by = "mathWalker_"
    /\ WalkerAt(pre.walkers_, GROUP) = "mathWalker_"

=============================================================================
